---- MODULE Spec2Model ----
(***************************************************************************)
(* A model of scripts/servers/server.py: the FLUX local development        *)
(* server.  main() runs a fixed startup sequence, binds a single-threaded  *)
(* socketserver.TCPServer on (HOST, PORT) and serves files through         *)
(* FluxHTTPRequestHandler, a SimpleHTTPRequestHandler whose end_headers    *)
(* and guess_type are overridden.  The inherited request handling is       *)
(* modelled as CPython 3.11's http.server / socketserver perform it.       *)
(*                                                                         *)
(* Strings the code inspects character by character (request paths) are    *)
(* sequences of one-character strings; MIME types are plain strings.       *)
(***************************************************************************)
EXTENDS Integers, Sequences, FiniteSets, TLC

\* Number of client connections a behaviour may open.
MaxConns == 2
\* Number of user interrupts (Ctrl+C) a behaviour may deliver.
MaxInterrupts == 2

Conns == 1..MaxConns

(***************************************************************************)
(* Character-sequence helpers (str.endswith, str.rfind, slicing, lower).   *)
(***************************************************************************)
EndsWith(s, suf) ==
  /\ Len(s) >= Len(suf)
  /\ SubSeq(s, Len(s) - Len(suf) + 1, Len(s)) = suf

RFind(s, ch) ==
  LET hits == {i \in 1..Len(s) : s[i] = ch}
  IN  IF hits = {} THEN 0 ELSE CHOOSE i \in hits : \A j \in hits : j <= i

Find(s, ch) ==
  LET hits == {i \in 1..Len(s) : s[i] = ch}
  IN  IF hits = {} THEN 0 ELSE CHOOSE i \in hits : \A j \in hits : i <= j

LowerChar(ch) ==
  CASE ch = "J" -> "j"
    [] ch = "S" -> "s"
    [] ch = "Z" -> "z"
    [] OTHER -> ch

Lower(s) == [i \in 1..Len(s) |-> LowerChar(s[i])]

(***************************************************************************)
(* The document root: the script's directory after os.chdir (line 38).     *)
(* A filesystem path is the directory token followed by the characters of  *)
(* the path below it.                                                      *)
(***************************************************************************)
ScriptDir == <<"<script_dir>">>
\* The directory the process was started in.
CallerDir == <<"<caller_dir>">>

JsSuffix == <<".", "j", "s">>

UrlRoot        == <<"/">>
UrlIndex       == <<"/", "i", "n", "d", "e", "x", ".", "h", "t", "m", "l">>
UrlAppJs       == <<"/", "a", "p", "p", ".", "j", "s">>
UrlAppJsQuery  == <<"/", "a", "p", "p", ".", "j", "s", "?", "v">>
UrlUpperJs     == <<"/", "u", "p", ".", "J", "S">>
UrlJsGz        == <<"/", "a", ".", "j", "s", ".", "g", "z">>
UrlSub         == <<"/", "s", "u", "b">>
UrlSubSlash    == <<"/", "s", "u", "b", "/">>
UrlMissing     == <<"/", "m", "i", "s", "s", ".", "h", "t", "m", "l">>

\* The request targets clients ask for.
RequestPaths ==
  { UrlRoot, UrlIndex, UrlAppJs, UrlAppJsQuery, UrlUpperJs, UrlJsGz,
    UrlSub, UrlSubSlash, UrlMissing }

\* Directories and regular files below the document root.
Dirs == { ScriptDir \o UrlRoot, ScriptDir \o UrlSub, ScriptDir \o UrlSubSlash }

Files ==
  { ScriptDir \o UrlIndex, ScriptDir \o UrlAppJs, ScriptDir \o UrlUpperJs,
    ScriptDir \o UrlJsGz }

\* The bytes of a regular file, named after the file.
Contents(fspath) == <<"contents-of", fspath>>

IsDir(fspath) == fspath \in Dirs
IsFile(fspath) == fspath \in Files

(***************************************************************************)
(* SimpleHTTPRequestHandler.translate_path: drop the query string, anchor  *)
(* the path at the working directory, keep a trailing slash.  (The         *)
(* request targets above hold no fragment, escape or dot-dot segment.)     *)
(***************************************************************************)
UrlPath(target) ==
  LET q == Find(target, "?")
  IN  IF q = 0 THEN target ELSE SubSeq(target, 1, q - 1)

translate_path(cwd, target) == cwd \o UrlPath(target)

(***************************************************************************)
(* posixpath.splitext(path)[1]: the extension starts at the last dot of    *)
(* the last component, leading dots of that component not counting.        *)
(***************************************************************************)
SplitExt(path) ==
  LET sep == RFind(path, "/")
      dot == RFind(path, ".")
  IN  IF /\ dot > sep
         /\ \E k \in (sep + 1)..(dot - 1) : path[k] # "."
      THEN SubSeq(path, dot, Len(path))
      ELSE <<>>

\* SimpleHTTPRequestHandler.extensions_map (matched case-sensitively first).
InExtensionsMap(ext) ==
  ext \in { <<".", "g", "z">>, <<".", "Z">>, <<".", "b", "z", "2">>, <<".", "x", "z">> }

ExtensionsMap(ext) ==
  CASE ext = <<".", "g", "z">> -> "application/gzip"
    [] ext = <<".", "Z">> -> "application/octet-stream"
    [] ext = <<".", "b", "z", "2">> -> "application/x-bzip2"
    [] ext = <<".", "x", "z">> -> "application/x-xz"

\* mimetypes.guess_type(path)[0] for the extensions in use; "" stands for None.
MimetypesGuess(lowext) ==
  CASE lowext = <<".", "j", "s">> -> "text/javascript"
    [] lowext = <<".", "h", "t", "m", "l">> -> "text/html"
    [] OTHER -> ""

(***************************************************************************)
(* The stock resolver, SimpleHTTPRequestHandler.guess_type: it returns ONE *)
(* value, the MIME type string.                                            *)
(***************************************************************************)
StockGuessType(path) ==
  LET ext == SplitExt(path)
  IN  IF InExtensionsMap(ext) THEN ExtensionsMap(ext)
      ELSE IF InExtensionsMap(Lower(ext)) THEN ExtensionsMap(Lower(ext))
      ELSE IF MimetypesGuess(Lower(ext)) # "" THEN MimetypesGuess(Lower(ext))
      ELSE "application/octet-stream"

(***************************************************************************)
(* FluxHTTPRequestHandler.guess_type (lines 28-33).  Line 30 unpacks the   *)
(* stock resolver's value into two names: iterating a string yields its    *)
(* characters, so the unpacking succeeds only for a string of exactly two  *)
(* characters and raises ValueError for every other one.                   *)
(***************************************************************************)
Raised(exc) == [kind |-> "raise", exc |-> exc, value |-> <<>>]
Returned(v) == [kind |-> "return", exc |-> "none", value |-> v]

guess_type(path) ==
  LET stock == StockGuessType(path)
  IN  IF Len(stock) # 2
      THEN Raised("ValueError")
      ELSE IF EndsWith(path, JsSuffix)
           THEN Returned(<<"application/javascript", "second-char-of-stock">>)
           ELSE Returned(<<"first-char-of-stock", "second-char-of-stock">>)

(***************************************************************************)
(* A request handler's working state while it answers one request:         *)
(*   request_version, command  as parse_request leaves them,               *)
(*   buf   the _headers_buffer (status line and header lines),             *)
(*   wire  what has been written to the client's socket, in order.         *)
(***************************************************************************)
StatusLine(code) == <<"STATUS", ToString(code)>>

NewHandler ==
  [request_version |-> "HTTP/0.9", command |-> "None", buf |-> <<>>, wire |-> <<>>]

HeadChunk(lines) == [kind |-> "head", lines |-> lines, data |-> <<>>]
BodyChunk(data)  == [kind |-> "body", lines |-> <<>>, data |-> data]

\* BaseHTTPRequestHandler.send_response_only
send_response_only(h, code) ==
  IF h.request_version # "HTTP/0.9"
  THEN [h EXCEPT !.buf = Append(@, StatusLine(code))]
  ELSE h

\* BaseHTTPRequestHandler.send_header
send_header(h, keyword, value) ==
  IF h.request_version # "HTTP/0.9"
  THEN [h EXCEPT !.buf = Append(@, <<keyword, value>>)]
  ELSE h

\* BaseHTTPRequestHandler.end_headers with flush_headers: the stock method
\* the override ends with (super().end_headers(), line 26).
StockEndHeaders(h) ==
  IF h.request_version # "HTTP/0.9"
  THEN [h EXCEPT !.wire = Append(@, HeadChunk(h.buf)), !.buf = <<>>]
  ELSE h

CorsHeaders ==
  << <<"Access-Control-Allow-Origin", "*">>,
     <<"Access-Control-Allow-Methods", "GET, POST, OPTIONS">>,
     <<"Access-Control-Allow-Headers", "*">> >>

\* A slip in the override: the Allow-Headers line is left out.
EndHeadersDroppingOne(h) ==
  StockEndHeaders(
    send_header(
      send_header(h, CorsHeaders[1][1], CorsHeaders[1][2]),
      CorsHeaders[2][1], CorsHeaders[2][2]))

\* FluxHTTPRequestHandler.end_headers (lines 21-26).
end_headers(h) ==
  StockEndHeaders(
    send_header(
      send_header(
        send_header(h, CorsHeaders[1][1], CorsHeaders[1][2]),
        CorsHeaders[2][1], CorsHeaders[2][2]),
      CorsHeaders[3][1], CorsHeaders[3][2]))

\* BaseHTTPRequestHandler.send_response
send_response(h, code) ==
  send_header(
    send_header(send_response_only(h, code), "Server", "SimpleHTTP/0.6"),
    "Date", "<now>")

WriteBody(h, data) == [h EXCEPT !.wire = Append(@, BodyChunk(data))]

\* BaseHTTPRequestHandler.send_error
send_error(h, code) ==
  LET h1 == send_header(send_response(h, code), "Connection", "close")
      hasBody == code >= 200 /\ code \notin {204, 205, 304}
      h2 == IF hasBody
            THEN send_header(
                   send_header(h1, "Content-Type", "text/html;charset=utf-8"),
                   "Content-Length", "<len>")
            ELSE h1
      h3 == end_headers(h2)
  IN  IF h.command # "HEAD" /\ hasBody
      THEN WriteBody(h3, <<"error-page", code>>)
      ELSE h3

(***************************************************************************)
(* Requests.  version "" is a request line of two words (an HTTP/0.9       *)
(* simple request).  Requests are unconditional: none carries an           *)
(* If-Modified-Since header.                                               *)
(***************************************************************************)
Methods == {"GET", "HEAD", "POST", "OPTIONS"}
Versions == {"", "HTTP/1.1", "HTTP/3.0", "FOO/1.0"}

Requests ==
  [method : Methods, path : RequestPaths, version : Versions]

WellFormedVersion(v) == v \in {"HTTP/1.1", "HTTP/3.0"}
MajorVersion(v) ==
  CASE v = "HTTP/1.1" -> 1 [] v = "HTTP/3.0" -> 3

\* BaseHTTPRequestHandler.parse_request: [ok, h].  request_version stays
\* the default "HTTP/0.9" until a version has been accepted.
parse_request(req) ==
  LET h0 == NewHandler
  IN  IF req.version # "" /\ ~WellFormedVersion(req.version)
      THEN [ok |-> FALSE, h |-> send_error(h0, 400)]
      ELSE IF req.version # "" /\ MajorVersion(req.version) >= 2
      THEN [ok |-> FALSE, h |-> send_error(h0, 505)]
      ELSE IF req.version = "" /\ req.method # "GET"
      THEN [ok |-> FALSE, h |-> send_error(h0, 400)]
      ELSE [ok |-> TRUE,
            h  |-> [h0 EXCEPT
                      !.request_version =
                         IF req.version = "" THEN "HTTP/0.9" ELSE req.version,
                      !.command = req.method]]

(***************************************************************************)
(* The outcome of answering one request: what reached the client, the      *)
(* exception that left the handler (if any), and what guess_type did when  *)
(* it was consulted.                                                       *)
(***************************************************************************)
NotCalled == [kind |-> "not_called", exc |-> "none", value |-> <<>>]

Outcome(h, exc, gt, fspath) ==
  [wire |-> h.wire, exc |-> exc, gt |-> gt, fspath |-> fspath]

\* What "%s" % ctype puts in the Content-type header.
FormatCtype(ctype) == "<repr of a 2-tuple>"

\* SimpleHTTPRequestHandler.list_directory followed by do_GET's copy.
list_directory(h, path) ==
  LET h1 == end_headers(
              send_header(
                send_header(send_response(h, 200),
                            "Content-type", "text/html; charset=utf-8"),
                "Content-Length", "<len>"))
  IN  IF h.command = "GET" THEN WriteBody(h1, <<"listing-of", path>>) ELSE h1

\* SimpleHTTPRequestHandler.send_head from the guess_type call on, followed
\* by do_GET's copyfile (do_HEAD closes the file instead).
ServeFile(h, req, path) ==
  LET gt == guess_type(path)
  IN  IF gt.kind = "raise" THEN Outcome(h, gt.exc, gt, path)
      ELSE IF EndsWith(path, <<"/">>) \/ ~IsFile(path)
      THEN Outcome(send_error(h, 404), "none", gt, path)
      ELSE LET h1 == end_headers(
                       send_header(
                         send_header(
                           send_header(send_response(h, 200),
                                       "Content-type", FormatCtype(gt.value)),
                           "Content-Length", "<len>"),
                         "Last-Modified", "<mtime>"))
           IN  Outcome(IF h.command = "GET" THEN WriteBody(h1, Contents(path)) ELSE h1,
                       "none", gt, path)

\* SimpleHTTPRequestHandler.send_head (with do_GET / do_HEAD around it).
send_head(h, req, cwd) ==
  LET path == translate_path(cwd, req.path)
      index == IF EndsWith(path, <<"/">>)
               THEN path \o Tail(UrlIndex)
               ELSE path \o UrlIndex
  IN  IF IsDir(path)
      THEN IF ~EndsWith(UrlPath(req.path), <<"/">>)
           THEN Outcome(
                  end_headers(
                    send_header(
                      send_header(send_response(h, 301), "Location", "<path>/"),
                      "Content-Length", "0")),
                  "none", NotCalled, path)
           ELSE IF IsFile(index)
           THEN ServeFile(h, req, index)
           ELSE Outcome(list_directory(h, path), "none", NotCalled, path)
      ELSE ServeFile(h, req, path)

\* BaseHTTPRequestHandler.handle_one_request, from the parsed request line
\* on: only do_GET and do_HEAD exist on the handler class.
handle_one_request(req, cwd) ==
  LET p == parse_request(req)
  IN  IF ~p.ok THEN Outcome(p.h, "none", NotCalled, <<>>)
      ELSE IF req.method \notin {"GET", "HEAD"}
      THEN Outcome(send_error(p.h, 501), "none", NotCalled, <<>>)
      ELSE send_head(p.h, req, cwd)

\* Every request's outcome in each working directory, worked out once.
Answers ==
  [d \in {CallerDir, ScriptDir} |->
     [req \in Requests |-> handle_one_request(req, d)]]

(***************************************************************************)
(* The process.                                                            *)
(*   pc        main()'s position                                           *)
(*   cwd       the working directory                                       *)
(*   effects   the side effects so far, in order (prints, bind, browser)   *)
(*   sock      the listening socket: "none", "listening", "closed"         *)
(*   exitCode  <<>> while the process runs, <<code>> once it has exited    *)
(*   bindErrno the errno socket.bind fails with on this machine at this    *)
(*             moment (0: the port is free and the bind succeeds)          *)
(*   conn, sent, backlog, cur   the clients' connections                   *)
(*   last      the last request answered, with its outcome                 *)
(*   handled, failures   requests answered / answered by an exception      *)
(*   sigints, sigAt   interrupts delivered, and where the last one hit     *)
(***************************************************************************)
VARIABLES pc, cwd, effects, sock, exitCode, bindErrno,
          conn, sent, backlog, cur, last, handled, failures, sigints, sigAt

vars == <<pc, cwd, effects, sock, exitCode, bindErrno,
          conn, sent, backlog, cur, last, handled, failures, sigints, sigAt>>

procVars == <<pc, cwd, effects, sock, exitCode>>
envVars == <<bindErrno>>
connVars == <<conn, sent, backlog, cur, last, handled, failures>>
sigVars == <<sigints, sigAt>>

Platforms == {"linux", "darwin", "windows"}
PortStates == {"free", "in_use", "denied"}

StoppedPcs == {"stopped_error", "stopped_signal", "uncaught"}

NoRequest == [method |-> "", path |-> <<>>, version |-> ""]
NoExchange ==
  [conn |-> 0, req |-> NoRequest, outcome |-> Outcome(NewHandler, "none", NotCalled, <<>>)]

\* The errno of the OSError socket.bind raises (0: none): EADDRINUSE is 98 on
\* Linux, 48 on macOS and the BSDs, 10048 (WSAEADDRINUSE) on Windows; EACCES
\* stands for every other failure.
BindErrno(plat, state) ==
  IF state = "free" THEN 0
  ELSE IF state = "in_use"
  THEN CASE plat = "linux" -> 98 [] plat = "darwin" -> 48 [] plat = "windows" -> 10048
  ELSE CASE plat = "windows" -> 10013 [] OTHER -> 13

AddressInUseErrnos == {BindErrno(plat, "in_use") : plat \in Platforms}

Init ==
  /\ pc = "start"
  /\ cwd = CallerDir
  /\ effects = <<>>
  /\ sock = "none"
  /\ exitCode = <<>>
  /\ \E plat \in Platforms, state \in PortStates : bindErrno = BindErrno(plat, state)
  /\ conn = [c \in Conns |-> "new"]
  /\ sent = [c \in Conns |-> "nothing"]
  /\ backlog = <<>>
  /\ cur = 0
  /\ last = NoExchange
  /\ handled = 0
  /\ failures = 0
  /\ sigints = 0
  /\ sigAt = "none"

\* except OSError (lines 80-90): what is printed before sys.exit(1).
OSErrorMessage(errno) ==
  IF errno = 48 \/ errno = 10048 THEN "print port in use" ELSE "print server error"

\* A slip in the handler: the friendly branch ends in sys.exit(1) as well.
KeyboardInterruptExitsOne(eff) ==
  [effects |-> eff \o <<"print stopped by user", "print thanks">>,
   exitCode |-> <<1>>, pc |-> "stopped_error"]

\* except KeyboardInterrupt (lines 91-93), then main returns.
OnKeyboardInterrupt(eff) ==
  [effects |-> eff \o <<"print stopped by user", "print thanks">>,
   exitCode |-> <<0>>, pc |-> "stopped_signal"]

\* Line 38.
ChDir ==
  /\ pc = "start"
  /\ cwd' = ScriptDir
  /\ effects' = Append(effects, "chdir")
  /\ pc' = "banner"
  /\ UNCHANGED <<sock, exitCode, envVars, connVars, sigVars>>

\* A different order: the URL list goes out with the banner, before the bind.
PrintBannerWithUrls ==
  /\ pc = "banner"
  /\ effects' = effects \o <<"print banner", "print urls">>
  /\ pc' = "bind"
  /\ UNCHANGED <<cwd, sock, exitCode, envVars, connVars, sigVars>>

\* Lines 40-44.
PrintBanner ==
  /\ pc = "banner"
  /\ effects' = Append(effects, "print banner")
  /\ pc' = "bind"
  /\ UNCHANGED <<cwd, sock, exitCode, envVars, connVars, sigVars>>

\* Line 47: TCPServer((HOST, PORT), ...) binds and listens; on OSError the
\* constructor closes the socket and lines 80-90 print and exit with 1.
Bind ==
  /\ pc = "bind"
  /\ IF bindErrno = 0
     THEN /\ sock' = "listening"
          /\ effects' = Append(effects, "bind")
          /\ pc' = "instructions"
          /\ UNCHANGED exitCode
     ELSE /\ sock' = "closed"
          /\ effects' = effects \o
               <<"bind", OSErrorMessage(bindErrno)>>
          /\ pc' = "stopped_error"
          /\ exitCode' = <<1>>
  /\ UNCHANGED <<cwd, envVars, connVars, sigVars>>

\* Lines 48-67.
PrintInstructions ==
  /\ pc = "instructions"
  /\ effects' = effects \o <<"print started", "print instructions", "print urls">>
  /\ pc' = "browser"
  /\ UNCHANGED <<cwd, sock, exitCode, envVars, connVars, sigVars>>

\* Lines 70-72: webbrowser.open returns, or raises into the bare except.
OpenBrowser ==
  /\ pc = "browser"
  /\ \E launched \in BOOLEAN :
       IF launched
       THEN /\ effects' = effects \o <<"open browser", "print opening">>
            /\ pc' = "running"
       ELSE /\ effects' = Append(effects, "open browser")
            /\ pc' = "browser_except"
  /\ UNCHANGED <<cwd, sock, exitCode, envVars, connVars, sigVars>>

\* Lines 73-74.
PrintManual ==
  /\ pc = "browser_except"
  /\ effects' = Append(effects, "print manual")
  /\ pc' = "running"
  /\ UNCHANGED <<cwd, sock, exitCode, envVars, connVars, sigVars>>

\* Lines 76-78: the last prints, then httpd.serve_forever().
PrintRunning ==
  /\ pc = "running"
  /\ effects' = effects \o <<"print running", "serve_forever">>
  /\ pc' = "serve"
  /\ UNCHANGED <<cwd, sock, exitCode, envVars, connVars, sigVars>>

(***************************************************************************)
(* Clients.  The kernel queues a connection as soon as the socket listens  *)
(* (TCPServer.request_queue_size is 5); what a client sends is read by the *)
(* handler when it gets to it.                                             *)
(***************************************************************************)
Connect(c) ==
  /\ sock = "listening"
  /\ conn[c] = "new"
  /\ conn' = [conn EXCEPT ![c] = "queued"]
  /\ backlog' = Append(backlog, c)
  /\ UNCHANGED <<procVars, envVars, sent, cur, last, handled, failures, sigVars>>

\* The client writes its request, or closes its end having written nothing.
ClientSend(c) ==
  /\ conn[c] \in {"queued", "accepted"}
  /\ sent[c] = "nothing"
  /\ \E what \in {"request", "eof"} : sent' = [sent EXCEPT ![c] = what]
  /\ UNCHANGED <<procVars, envVars, conn, backlog, cur, last, handled, failures, sigVars>>

(***************************************************************************)
(* The serve loop of the single-threaded TCPServer (line 78): one          *)
(* connection is accepted and its handler runs to completion in the main   *)
(* thread before the next accept.  The handler has no timeout: it blocks   *)
(* in rfile.readline until the client has sent something.                  *)
(***************************************************************************)
Accept ==
  /\ pc = "serve"
  /\ cur = 0
  /\ backlog # <<>>
  /\ cur' = Head(backlog)
  /\ backlog' = Tail(backlog)
  /\ conn' = [conn EXCEPT ![Head(backlog)] = "accepted"]
  /\ UNCHANGED <<procVars, envVars, sent, last, handled, failures, sigVars>>

\* Without BaseServer's "except Exception: handle_error": a handler's
\* exception leaves serve_forever and main() uncaught.
HandleRequestPropagating ==
  /\ pc = "serve"
  /\ cur # 0
  /\ sent[cur] = "request"
  /\ \E req \in Requests :
       LET o == Answers[cwd][req]
       IN  /\ last' = [conn |-> cur, req |-> req, outcome |-> o]
           /\ failures' = IF o.exc # "none" THEN failures + 1 ELSE failures
           /\ IF o.exc # "none"
              THEN pc' = "uncaught" /\ exitCode' = <<1>> /\ sock' = "closed"
              ELSE UNCHANGED <<pc, exitCode, sock>>
  /\ handled' = handled + 1
  /\ conn' = [conn EXCEPT ![cur] = "closed"]
  /\ sent' = [sent EXCEPT ![cur] = "nothing"]
  /\ cur' = 0
  /\ UNCHANGED <<cwd, effects, envVars, backlog, sigVars>>

\* The handler reads the request and answers it; an exception it raises is
\* caught by BaseServer._handle_request_noblock (handle_error prints the
\* traceback); either way the connection is shut down and the loop goes on.
HandleRequest ==
  /\ pc = "serve"
  /\ cur # 0
  /\ sent[cur] = "request"
  /\ \E req \in Requests :
       LET o == Answers[cwd][req]
       IN  /\ last' = [conn |-> cur, req |-> req, outcome |-> o]
           /\ failures' = IF o.exc # "none" THEN failures + 1 ELSE failures
  /\ handled' = handled + 1
  /\ conn' = [conn EXCEPT ![cur] = "closed"]
  /\ sent' = [sent EXCEPT ![cur] = "nothing"]
  /\ cur' = 0
  /\ UNCHANGED <<procVars, envVars, backlog, sigVars>>

\* readline returns b"": handle_one_request returns without a response.
HandleEOF ==
  /\ pc = "serve"
  /\ cur # 0
  /\ sent[cur] = "eof"
  /\ conn' = [conn EXCEPT ![cur] = "closed"]
  /\ sent' = [sent EXCEPT ![cur] = "nothing"]
  /\ cur' = 0
  /\ UNCHANGED <<procVars, envVars, backlog, last, handled, failures, sigVars>>

(***************************************************************************)
(* The user presses Ctrl+C: KeyboardInterrupt is raised in the main thread *)
(* at its current position.                                                *)
(*   lines 37-44 are outside the try: the interrupt is uncaught;           *)
(*   lines 70-72 are inside the bare "except:" of the browser launch,      *)
(*   which catches it and goes on at line 74;                              *)
(*   anywhere else in the try, the with block closes the socket and        *)
(*   lines 91-93 run.                                                      *)
(***************************************************************************)
Interrupt ==
  /\ pc \notin StoppedPcs
  /\ sigints < MaxInterrupts
  /\ sigints' = sigints + 1
  /\ sigAt' = pc
  /\ IF pc \in {"start", "banner"}
     THEN /\ pc' = "uncaught"
          /\ exitCode' = <<130>>
          /\ UNCHANGED <<effects, sock, conn, cur>>
     ELSE IF pc = "browser"
     THEN /\ pc' = "browser_except"
          /\ effects' = Append(effects, "open browser")
          /\ UNCHANGED <<exitCode, sock, conn, cur>>
     ELSE LET r == OnKeyboardInterrupt(effects)
          IN  /\ pc' = r.pc
              /\ exitCode' = r.exitCode
              /\ effects' = r.effects
              /\ sock' = IF sock = "listening" THEN "closed" ELSE sock
              /\ conn' = IF cur # 0 THEN [conn EXCEPT ![cur] = "closed"] ELSE conn
              /\ cur' = 0
  /\ UNCHANGED <<cwd, envVars, sent, backlog, last, handled, failures>>

MainStep ==
  \/ ChDir
  \/ PrintBanner
  \/ Bind
  \/ PrintInstructions
  \/ OpenBrowser
  \/ PrintManual
  \/ PrintRunning
  \/ Accept
  \/ HandleRequest
  \/ HandleEOF

ClientStep == \E c \in Conns : Connect(c) \/ ClientSend(c)

Next == MainStep \/ ClientStep \/ Interrupt

Spec == Init /\ [][Next]_vars

\* The main thread keeps running while it has something to do; clients and
\* the user act when they please, or never.
FairSpec == Spec /\ WF_vars(MainStep)

TypeOK ==
  /\ pc \in {"start", "banner", "bind", "instructions", "browser", "browser_except",
             "running", "serve"} \cup StoppedPcs
  /\ cwd \in {CallerDir, ScriptDir}
  /\ sock \in {"none", "listening", "closed"}
  /\ exitCode \in {<<>>, <<0>>, <<1>>, <<130>>}
  /\ conn \in [Conns -> {"new", "queued", "accepted", "closed"}]
  /\ sent \in [Conns -> {"nothing", "request", "eof"}]
  /\ cur \in Conns \cup {0}
  /\ handled \in 0..MaxConns
  /\ failures \in 0..handled
  /\ sigints \in 0..MaxInterrupts

(***************************************************************************)
(* Reading the last exchange.                                              *)
(***************************************************************************)
Answered == last.conn # 0
Wire == last.outcome.wire

HasHead(w) == w # <<>> /\ w[1].kind = "head"
Status(w) == IF HasHead(w) THEN w[1].lines[1][2] ELSE ""
HasLine(lines, kv) == \E i \in 1..Len(lines) : lines[i] = kv
CarriesCors(lines) == \A i \in 1..Len(CorsHeaders) : HasLine(lines, CorsHeaders[i])

HeaderValue(w, keyword) ==
  IF HasHead(w) /\ \E i \in 1..Len(w[1].lines) : w[1].lines[i][1] = keyword
  THEN w[1].lines[CHOOSE i \in 1..Len(w[1].lines) : w[1].lines[i][1] = keyword][2]
  ELSE ""

Body(w) ==
  IF \E i \in 1..Len(w) : w[i].kind = "body"
  THEN w[CHOOSE i \in 1..Len(w) : w[i].kind = "body"].data
  ELSE <<>>

Printed(what) == \E i \in 1..Len(effects) : effects[i] = what

IsPrefix(s, t) == Len(s) <= Len(t) /\ SubSeq(t, 1, Len(s)) = s

\* The file a GET for this target is to be answered from (the directory
\* index for the root), whether or not it exists.
TargetFile(target) ==
  LET p == translate_path(ScriptDir, target)
  IN  IF p = ScriptDir \o UrlRoot THEN ScriptDir \o UrlIndex ELSE p

(***************************************************************************)
(* C1 as stated: every response the server sends carries the three CORS    *)
(* headers, whatever the path, the method and the status.                  *)
(***************************************************************************)
C1_EveryResponseCarriesCors ==
  (Answered /\ Wire # <<>>) => (HasHead(Wire) /\ CarriesCors(Wire[1].lines))

(***************************************************************************)
(* C1 amended: every response sent with a status line and header block     *)
(* carries the three CORS headers with their exact values, and every       *)
(* response to a request line naming HTTP/1.1 is such a response; the      *)
(* response to an HTTP/0.9 simple request, or to a request line whose      *)
(* version is rejected (400, 505), is a bare body with no header at all.   *)
(***************************************************************************)
C1_HeaderBlocksCarryCors ==
  Answered =>
    /\ \A i \in 1..Len(Wire) : Wire[i].kind = "head" => CarriesCors(Wire[i].lines)
    /\ (last.req.version = "HTTP/1.1" /\ Wire # <<>>) => HasHead(Wire)
    /\ last.req.version # "HTTP/1.1" => \A i \in 1..Len(Wire) : Wire[i].kind = "body"

C1_Witness ==
  /\ Answered
  /\ last.req.method = "OPTIONS"
  /\ Status(Wire) = "501"
  /\ CarriesCors(Wire[1].lines)

(***************************************************************************)
(* C2: started on a free port the server listens, and a GET for an         *)
(* existing regular file (for /, the index.html of the root) is answered   *)
(* with status 200 and the file's contents.                                *)
(***************************************************************************)
C2_GetReturnsFile ==
  /\ (bindErrno = 0 /\ pc \in {"instructions", "browser", "running", "serve"})
        => sock = "listening"
  /\ ( /\ Answered
       /\ last.req.method = "GET"
       /\ last.req.version = "HTTP/1.1"
       /\ IsFile(TargetFile(last.req.path)) )
        => /\ Status(Wire) = "200"
           /\ Body(Wire) = Contents(TargetFile(last.req.path))

(***************************************************************************)
(* C3: for a path ending in ".js" guess_type answers                       *)
(* application/javascript (with the stock encoding), and the file is       *)
(* served with that Content-Type.                                          *)
(***************************************************************************)
C3_JsServedAsJavascript ==
  ( /\ Answered
    /\ last.outcome.gt.kind # "not_called"
    /\ EndsWith(last.outcome.fspath, JsSuffix) )
     => /\ last.outcome.gt.kind = "return"
        /\ last.outcome.gt.value[1] = "application/javascript"
        /\ (IsFile(last.outcome.fspath) /\ last.req.version = "HTTP/1.1")
              => HeaderValue(Wire, "Content-type") = "application/javascript"

(***************************************************************************)
(* C4: for a path not ending in ".js" guess_type answers as the stock      *)
(* resolver does, and the file is served with the stock MIME type.         *)
(***************************************************************************)
C4_OtherPathsGetStockType ==
  ( /\ Answered
    /\ last.outcome.gt.kind # "not_called"
    /\ ~EndsWith(last.outcome.fspath, JsSuffix) )
     => /\ last.outcome.gt.kind = "return"
        /\ (IsFile(last.outcome.fspath) /\ last.req.version = "HTTP/1.1")
              => HeaderValue(Wire, "Content-type") = StockGuessType(last.outcome.fspath)

(***************************************************************************)
(* C5: a failed bind ends the process with exit code 1; when the address   *)
(* is in use, on any platform, the dedicated "port is already in use"      *)
(* diagnostic is printed and not the generic one; any other failure        *)
(* prints the generic "Server error" line.                                 *)
(***************************************************************************)
C5_AddressInUseDiagnosed ==
  pc = "stopped_error" =>
    /\ exitCode = <<1>>
    /\ IF bindErrno \in AddressInUseErrnos
       THEN Printed("print port in use") /\ ~Printed("print server error")
       ELSE Printed("print server error") /\ ~Printed("print port in use")

(***************************************************************************)
(* C6: an interrupt received in the serve loop ends the process normally:  *)
(* the friendly messages are the last thing printed, the listening socket  *)
(* is closed, the exit code is 0 and no error message is printed.          *)
(***************************************************************************)
C6_InterruptWhileServingExitsZero ==
  sigAt = "serve" =>
    /\ pc = "stopped_signal"
    /\ exitCode = <<0>>
    /\ sock = "closed"
    /\ cur = 0
    /\ Len(effects) >= 2
    /\ SubSeq(effects, Len(effects) - 1, Len(effects))
          = <<"print stopped by user", "print thanks">>
    /\ ~Printed("print server error")
    /\ ~Printed("print port in use")

C6_Witness ==
  /\ sigAt = "serve"
  /\ pc = "stopped_signal"
  /\ handled >= 1

(***************************************************************************)
(* C7.  The side effects of startup that the claim orders.                 *)
(***************************************************************************)
Milestones ==
  SelectSeq(effects,
            LAMBDA e : e \in {"chdir", "print banner", "bind", "print urls",
                              "open browser", "serve_forever"})

StartupOrder ==
  <<"chdir", "print banner", "bind", "print urls", "open browser", "serve_forever">>

ClaimedOrder ==
  <<"chdir", "print banner", "print urls", "bind", "open browser", "serve_forever">>

(***************************************************************************)
(* C7 as stated: chdir, then the banner and the URL list, then the bind,   *)
(* then the browser launch, then the serve loop: the URL list is printed   *)
(* before the bind is attempted.                                           *)
(***************************************************************************)
C7_UrlsBeforeBind == IsPrefix(Milestones, ClaimedOrder)

(***************************************************************************)
(* C7 amended: chdir, then the banner, then the bind, then (only after a   *)
(* successful bind) the URL list, then the browser launch attempt, then    *)
(* the serve loop; a run whose bind fails never prints the URL list.       *)
(***************************************************************************)
C7_StartupOrder ==
  /\ IsPrefix(Milestones, StartupOrder)
  /\ pc = "stopped_error" => ~Printed("print urls")
  /\ Printed("print urls") => bindErrno = 0
  /\ pc = "serve" => Milestones = StartupOrder

C7_Witness ==
  /\ pc = "serve"
  /\ Milestones = StartupOrder
  /\ Printed("print manual")

C9_EveryConnectionAccepted ==
  \A c \in Conns :
    (conn[c] = "queued") ~> (conn[c] # "queued" \/ pc \in StoppedPcs)

(***************************************************************************)
(* C10: an interrupt delivered at any moment after the bind stops the      *)
(* server: the process is stopped by the signal with exit code 0 and does  *)
(* not go on towards the serve loop.                                       *)
(***************************************************************************)
C10_InterruptAfterBindStops ==
  sigAt \in {"instructions", "browser", "browser_except", "running", "serve"}
    => (pc = "stopped_signal" /\ exitCode = <<0>>)
====
